---------------------------- MODULE Spec2Model ----------------------------
(***************************************************************************)
(* Model of the speech-disfluency analysis pipeline of python_services:    *)
(*   audio_processor.py      AudioProcessor.segment_audio_file,            *)
(*                           CNNModelPredictor.predict_image /             *)
(*                           predict_spectrograms, process_audio_file      *)
(*   cnn_analysis_service.py CNNAnalysisService.analyze_audio_file,        *)
(*                           analyze_audio_file_precise,                   *)
(*                           _format_results_for_flutter                   *)
(* and of the three command-line entry points (main).  Spec is the         *)
(* pipeline;                                                               *)
(* FunctionSpec applies _calculate_severity, resize_spectrogram and the    *)
(* AudioProcessor constructor to single calls.                             *)
(*                                                                         *)
(* Units.  Durations are integer milliseconds, as in the code (pydub's     *)
(* len()).  The overlap ratio is the dyadic fraction overlap_k/OverlapDen, *)
(* for which the code's float expression int(S * (1 - r)) is exact.        *)
(* Confidences and probabilities are integer hundredths (30 is 0.30).      *)
(* Timestamps the code keeps in float seconds (i * 5.0) are kept here in   *)
(* milliseconds (i * 5000); sub-event offsets are multiples of 500 ms, for *)
(* which int(seconds * 1000) is exact.                                     *)
(***************************************************************************)
EXTENDS Integers, Sequences, FiniteSets, TLC

(***************************************************************************)
(* Bounds of the model.                                                    *)
(***************************************************************************)
\* clip durations tried through process_audio_file: 0, DurUnit, ..., MaxDur * DurUnit ms
DurUnit == 500
MaxDur == 10
\* configurations tried on segment_audio_file directly: segment duration 1..MaxSegMs ms
MaxSegMs == 5
\* clip durations tried on segment_audio_file directly: 0..MaxClipMs ms
MaxClipMs == 9
\* the overlap ratio ranges over k / 2^OverlapBits, 0 <= k < 2^OverlapBits
OverlapBits == 2
\* at most this many windows of one run fail or raise in the segmentation loop
MaxFaults == 1

OverlapDen == 2 ^ OverlapBits

(***************************************************************************)
(* Program constants.                                                      *)
(***************************************************************************)
\* AudioProcessor() defaults, in ms (segment_duration=3.0, min_segment_duration=1.0)
DefaultSegmentMs == 3000
DefaultMinSegmentMs == 1000
\* predict_spectrograms: 'timestamp_start': i * 5.0 (seconds), here in ms
TimestampStrideMs == 5000
\* _format_results_for_flutter: confidence < 0.3
ConfidenceThreshold == 30

Min(a, b) == IF a < b THEN a ELSE b
Max(a, b) == IF a > b THEN a ELSE b

(***************************************************************************)
(* AudioProcessor.segment_audio_file: the window arithmetic.               *)
(***************************************************************************)
StepSizeMs_NoOverlap(S, k) == S

\* segment_audio_file: step_size_ms = int(segment_duration_ms * (1 - overlap_ratio))
StepSizeMs(S, k) == (S * (OverlapDen - k)) \div OverlapDen

\* mutant: the short clip is extended to the segment duration instead of the minimum
ExtendedDuration_ToSegment(D, S, m) == IF D <= S /\ D < m THEN S ELSE D

\* segment_audio_file: the clip shorter than the minimum is extended with silence
ExtendedDuration(D, S, m) == IF D <= S /\ D < m THEN m ELSE D

NumSegments_Covering(D, S, step) ==
    IF D <= S THEN 1 ELSE ((D - S + step - 1) \div step) + 1

\* segment_audio_file: num_segments (step > 0 where D > S; step = 0 raises before)
NumSegments(D, S, step) ==
    IF D <= S THEN 1 ELSE Max(1, ((D - S) \div step) + 1)

\* segment_audio_file: start_ms = i * step_size_ms
StartMs(i, step) == i * step

\* segment_audio_file: end_ms = min(start_ms + segment_duration_ms, duration_ms)
EndMs(i, step, S, D) == Min(StartMs(i, step) + S, D)

PaddedLength_ToSegment(L, S, m) == IF L < S THEN S ELSE L

\* segment_audio_file: the secondary padding of one segment of natural length L
\* (len(segment) >= segment_duration_ms * 0.8 is 5 * L >= 4 * S on integers)
PaddedLength(L, S, m) ==
    IF L < m THEN m
    ELSE IF L < S /\ 5 * L >= 4 * S THEN S
    ELSE L

(***************************************************************************)
(* CNNModelPredictor.predict_image / predict_spectrograms.                 *)
(***************************************************************************)
\* the vector cut to the class list, missing classes left out
PredictImage_NoPadding(vector, names) ==
    [ j \in 1..Min(Len(vector), Len(names)) |-> vector[j] ]

\* predict_image, lines 579-585: one entry per class name, in class-list order;
\* the vector's value where it has one, 0.0 where it is shorter
PredictImage(vector, names) ==
    [ j \in 1..Len(names) |-> IF j <= Len(vector) THEN vector[j] ELSE 0 ]

\* predict_spectrograms: max(predictions, key=predictions.get), the first key
\* (in insertion order) that holds the largest value
ArgMaxFirst(p) ==
    CHOOSE j \in 1..Len(p) :
        /\ \A k \in 1..Len(p) : p[k] <= p[j]
        /\ \A k \in 1..(j - 1) : p[k] < p[j]

\* predict_spectrograms, lines 603-611: the result of item n (0-based) of the
\* list, whose image is spectrogram_<image>.png
SuccessResult(n, image, vector, names) ==
    [ segment_index   |-> n + 1,
      image           |-> image,
      failed          |-> FALSE,
      predictions     |-> PredictImage(vector, names),
      predicted_class |-> names[ArgMaxFirst(PredictImage(vector, names))],
      confidence      |-> PredictImage(vector, names)[ArgMaxFirst(PredictImage(vector, names))],
      timestamp_start |-> n * TimestampStrideMs,
      timestamp_end   |-> (n + 1) * TimestampStrideMs ]

\* predict_spectrograms, lines 618-624: the result of an item whose prediction raised
FailureResult(n, image) ==
    [ segment_index   |-> n + 1,
      image           |-> image,
      failed          |-> TRUE,
      predictions     |-> << >>,
      predicted_class |-> "",
      confidence      |-> 0,
      timestamp_start |-> n * TimestampStrideMs,
      timestamp_end   |-> (n + 1) * TimestampStrideMs ]

(***************************************************************************)
(* Python dicts that count, as sequences of [key, count] in insertion      *)
(* order.                                                                  *)
(***************************************************************************)
\* d[key] = d.get(key, 0) + 1
Increment(d, key) ==
    IF \E j \in 1..Len(d) : d[j].key = key
    THEN [ j \in 1..Len(d) |->
             IF d[j].key = key THEN [d[j] EXCEPT !.count = @ + 1] ELSE d[j] ]
    ELSE Append(d, [key |-> key, count |-> 1])

\* the counts of the keys of the first n items of a sequence of keys
RECURSIVE CountKeys(_, _)
CountKeys(keys, n) ==
    IF n = 0 THEN << >> ELSE Increment(CountKeys(keys, n - 1), keys[n])

\* the last key that holds the largest count
MaxKey_Last(d) ==
    d[CHOOSE j \in 1..Len(d) :
        /\ \A k \in 1..Len(d) : d[k].count <= d[j].count
        /\ \A k \in (j + 1)..Len(d) : d[k].count < d[j].count].key

\* max(d, key=d.get): the first key that holds the largest count
MaxKey(d) ==
    d[CHOOSE j \in 1..Len(d) :
        /\ \A k \in 1..Len(d) : d[k].count <= d[j].count
        /\ \A k \in 1..(j - 1) : d[k].count < d[j].count].key

RECURSIVE SumConfidence(_, _)
SumConfidence(items, n) ==
    IF n = 0 THEN 0 ELSE SumConfidence(items, n - 1) + items[n].confidence

\* the sequence f(items[1]), ..., in order
ClassOf(items) == [ j \in 1..Len(items) |-> items[j].predicted_class ]
TypeOf(items) == [ j \in 1..Len(items) |-> items[j].type ]

(***************************************************************************)
(* process_audio_file: the summary.                                        *)
(***************************************************************************)
\* results['summary'] = {} (lines 645-652), as left by the early returns
EmptySummary ==
    [ present                |-> FALSE,
      total_segments         |-> 0,
      successful_predictions |-> 0,
      class_distribution     |-> << >>,
      average_confidence     |-> [num |-> 0, den |-> 1],
      dominant_class         |-> "none" ]

Successful(predictions) == SelectSeq(predictions, LAMBDA p : ~p.failed)

\* process_audio_file, lines 694-723; average_confidence is the quotient num / den
Summarize(predictions) ==
    IF Successful(predictions) # << >>
    THEN [ present                |-> TRUE,
           total_segments         |-> Len(predictions),
           successful_predictions |-> Len(Successful(predictions)),
           class_distribution     |-> CountKeys(ClassOf(Successful(predictions)),
                                                Len(Successful(predictions))),
           average_confidence     |->
               [ num |-> SumConfidence(Successful(predictions),
                                       Len(Successful(predictions))),
                 den |-> Len(Successful(predictions)) ],
           dominant_class         |-> MaxKey(CountKeys(ClassOf(Successful(predictions)),
                                                       Len(Successful(predictions)))) ]
    ELSE [ present                |-> TRUE,
           total_segments         |-> Len(predictions),
           successful_predictions |-> 0,
           class_distribution     |-> << >>,
           average_confidence     |-> [num |-> 0, den |-> 1],
           dominant_class         |-> "None" ]

(***************************************************************************)
(* CNNAnalysisService._format_results_for_flutter (coarse mode).           *)
(***************************************************************************)
\* int(confidence * 100) on IEEE doubles, for confidence = c / 100:
\* 0.29 * 100, 0.57 * 100 and 0.58 * 100 fall just below the integer
Probability(c) == IF c \in {29, 57, 58} THEN c - 1 ELSE c

\* mutant: the threshold itself is excluded (confidence <= 0.3 is skipped)
Emits_Strict(segment) ==
    /\ ~segment.failed
    /\ ~(segment.predicted_class = "none" \/ segment.confidence <= ConfidenceThreshold)

\* lines 310-317: the segments that get an event
Emits(segment) ==
    /\ ~segment.failed
    /\ ~(segment.predicted_class = "none" \/ segment.confidence < ConfidenceThreshold)

\* lines 319-328; image is the window the segment's spectrogram came from
\* (segment['image_path']), kept to tell the events' windows apart
CoarseEvent(segment) ==
    [ type        |-> segment.predicted_class,
      confidence  |-> segment.confidence,
      probability |-> Probability(segment.confidence),
      seconds     |-> segment.timestamp_start \div 1000,
      t0          |-> segment.timestamp_start,
      t1          |-> segment.timestamp_end,
      source      |-> "cnn_model",
      image       |-> segment.image ]

CoarseEvents(segs) ==
    [ j \in 1..Len(SelectSeq(segs, Emits)) |-> CoarseEvent(SelectSeq(segs, Emits)[j]) ]

\* lines 332-360: results['summary'].get(key, default) reads the default when
\* the summary is {}
FormatResultsForFlutter(segs, summ, errs) ==
    [ events  |-> CoarseEvents(segs),
      summary |->
        [ segmentCount          |-> Len(CoarseEvents(segs)),
          totalSegments         |-> summ.total_segments,
          successfulPredictions |-> summ.successful_predictions,
          averageConfidence     |-> summ.average_confidence,
          dominantType          |-> summ.dominant_class,
          classDistribution     |-> summ.class_distribution,
          hasEvents             |-> Len(CoarseEvents(segs)) > 0,
          error                 |-> "" ],
      errors  |-> errs,
      processing_info |-> {"model_path", "input_file", "processing_time", "errors"} ]

\* analyze_audio_file, lines 118-131, run_analysis_from_flutter, lines 397-446,
\* and FlutterCNNService.analyze_audio, lines 72-122: the report that is built
\* when the analysis could not be completed.  processing_info is the set of
\* its keys; the summary has the keys segmentCount, hasEvents and error only,
\* and the others read as they would by .get
FallbackReport(text) ==
    [ events  |-> << >>,
      summary |->
        [ segmentCount          |-> 0,
          totalSegments         |-> 0,
          successfulPredictions |-> 0,
          averageConfidence     |-> [num |-> 0, den |-> 1],
          dominantType          |-> "none",
          classDistribution     |-> << >>,
          hasEvents             |-> FALSE,
          error                 |-> text ],
      errors  |-> << >>,
      processing_info |-> {"error", "model_path", "input_file"} ]

(***************************************************************************)
(* CNNAnalysisService.analyze_audio_file_precise.                          *)
(***************************************************************************)
\* lines 198-216: a sub-event of the localizer, made absolute
PreciseEvent(segment, event) ==
    [ type           |-> event.type,
      confidence     |-> event.confidence,
      probability    |-> Probability(event.confidence),
      seconds        |-> (segment.timestamp_start + event.start_time) \div 1000,
      t0             |-> segment.timestamp_start + event.start_time,
      t1             |-> segment.timestamp_start + event.end_time,
      duration       |-> event.duration,
      severity       |-> event.severity,
      source         |-> "cnn_model_precise",
      segment_start  |-> segment.timestamp_start,
      relative_start |-> event.start_time,
      relative_end   |-> event.end_time,
      image          |-> segment.image ]

PreciseEventsOf(segment, sub) ==
    [ j \in 1..Len(sub) |-> PreciseEvent(segment, sub[j]) ]

\* lines 229-278
PreciseReport(events, local_errors, summ, errs) ==
    [ events  |-> events,
      summary |->
        [ segmentCount          |-> summ.total_segments,
          totalSegments         |-> summ.total_segments,
          successfulPredictions |-> summ.successful_predictions,
          preciseEventsDetected |-> Len(events),
          averageConfidence     |->
              IF events # << >>
              THEN [num |-> SumConfidence(events, Len(events)), den |-> Len(events)]
              ELSE [num |-> 0, den |-> 1],
          dominantType          |->
              IF events = << >> THEN "none"
              ELSE MaxKey(CountKeys(TypeOf(events), Len(events))),
          classDistribution     |-> CountKeys(TypeOf(events), Len(events)),
          hasEvents             |-> Len(events) > 0,
          error                 |-> "" ],
      errors  |-> local_errors \o errs,
      processing_info |-> {"model_path", "input_file", "processing_time", "errors"} ]

\* lines 255-278: the report when building the summary raised
PreciseReportSummaryError(events, local_errors, errs) ==
    [ events  |-> events,
      summary |->
        [ segmentCount          |-> 0,
          totalSegments         |-> 0,
          successfulPredictions |-> 0,
          preciseEventsDetected |-> Len(events),
          averageConfidence     |-> [num |-> 0, den |-> 1],
          dominantType          |-> "none",
          classDistribution     |-> << >>,
          hasEvents             |-> Len(events) > 0,
          error                 |-> "Error creating summary" ],
      errors  |-> local_errors \o errs,
      processing_info |-> {"model_path", "input_file", "processing_time", "errors"} ]

\* an entry of an error list: its text, and the segment number it names (0: none)
ErrorEntry(text, segment) == [text |-> text, segment |-> segment]

(***************************************************************************)
(* The environment: what the classifier and the localizer may return.      *)
(***************************************************************************)
\* CNNModelPredictor._load_class_names: the defaults, or the lines of class_names.txt
ClassNameLists == { <<"blocks", "prolongations", "repetitions">>,
                    <<"repetitions", "none">> }

\* the probability vector of the model for one image (hundredths): shorter
\* than, as long as, and longer than the class list
ProbVectors == { <<20>>, <<30, 30>>, <<10, 90, 5, 40>> }

\* the sub-events the localizer may return for one window: offsets in ms
\* relative to the window start
SubEventA ==
    [ type |-> "blocks", confidence |-> 85, start_time |-> 500, end_time |-> 1000,
      duration |-> 500, severity |-> "high" ]
SubEventB ==
    [ type |-> "repetitions", confidence |-> 45, start_time |-> 1500,
      end_time |-> 2500, duration |-> 1000, severity |-> "low" ]
LocalizerOutputs == { << >>, <<SubEventA>>, <<SubEventB, SubEventA>> }

\* what happens to one window inside the segmentation loop
WindowOutcomes == {"ok", "export_failed", "spectrogram_failed", "save_failed",
                   "export_MemoryError", "MemoryError", "KeyboardInterrupt"}

\* the report of PyTorchCNNService.analyze_audio, which FlutterCNNService
\* passes on: a report of the documented shape
PyTorchReport ==
    [ events  |-> << >>,
      summary |->
        [ segmentCount          |-> 0,
          totalSegments         |-> 0,
          successfulPredictions |-> 0,
          averageConfidence     |-> [num |-> 0, den |-> 1],
          dominantType          |-> "none",
          classDistribution     |-> << >>,
          hasEvents             |-> FALSE,
          error                 |-> "" ],
      errors  |-> << >>,
      processing_info |-> {"model_path", "input_file", "processing_time", "errors"} ]

VARIABLES
    entry,                   \* the entry point this run was started through
    segment_duration_ms,     \* int(self.segment_duration * 1000)
    overlap_k,               \* self.overlap_ratio = overlap_k / OverlapDen
    min_segment_duration_ms, \* int(self.min_segment_duration * 1000)
    class_names,             \* CNNModelPredictor.class_names
    clip_ms,                 \* len(audio) of the input file as loaded
    duration_ms,             \* segment_audio_file's duration_ms (after extension)
    pc,                      \* position of the run
    seg_error,               \* what segment_audio_file raised, "none" if nothing
    num_segments,            \* segment_audio_file's num_segments
    i,                       \* index of the loop the run is in
    faults,                  \* windows that failed in the segmentation loop so far
    windows,                 \* the windows the segmentation loop attempted, in order
    spectrogram_paths,       \* segment_audio_file's spectrogram_paths (window numbers)
    segments,                \* process_audio_file's results['segments']
    summary,                 \* process_audio_file's results['summary']
    errors,                  \* process_audio_file's results['errors']
    precise_events,          \* analyze_audio_file_precise's precise_events
    precise_errors,          \* analyze_audio_file_precise's errors
    localized,               \* what the localizer returned, window by window (history)
    report,                  \* the report the entry point returned
    predictions,             \* predict_spectrograms's results, process_audio_file's predictions
    model_load,              \* whether process_audio_file built the predictor (history)
    vectors,                 \* the probability vector behind each result (history)
    raised,                  \* the exceptions raised so far, window failures apart (history)
    aggregation_error,       \* the aggregation step that raised, "none" if none (history)
    temp_files,              \* the files in the AudioProcessor's temp_dir
    exit_code,               \* the value main returned, once pc = "exited"
    call,                    \* a single call of a function: its name and arguments
    result                   \* what that call returned or raised

config == <<entry, segment_duration_ms, overlap_k, min_segment_duration_ms,
            class_names, clip_ms>>
segmenter == <<duration_ms, seg_error, num_segments, faults, windows,
               spectrogram_paths>>
results == <<segments, summary, errors>>
precise == <<precise_events, precise_errors, localized>>
predictor == <<predictions, vectors>>
history == <<model_load, predictor, raised, aggregation_error>>
process == <<temp_files, exit_code>>
unit == <<call, result>>

vars == <<config, segmenter, results, precise, history, process, unit, pc, i, report>>

\* AudioProcessor.__init__: the configurations the constructor accepts
ValidConfig(S, k, m) ==
    /\ S > 0
    /\ 0 <= k /\ k < OverlapDen
    /\ m > 0
    /\ m <= S

NoReport == [events |-> << >>, summary |-> EmptySummary, errors |-> << >>]

EmptyRun ==
    /\ duration_ms = clip_ms
    /\ seg_error = "none"
    /\ num_segments = 0
    /\ i = 0
    /\ faults = 0
    /\ windows = << >>
    /\ spectrogram_paths = << >>
    /\ segments = << >>
    /\ summary = EmptySummary
    /\ errors = << >>
    /\ precise_events = << >>
    /\ precise_errors = << >>
    /\ localized = << >>
    /\ report = NoReport
    /\ model_load = "not_tried"
    /\ predictions = << >>
    /\ vectors = << >>
    /\ raised = << >>
    /\ aggregation_error = "none"
    /\ temp_files = {}
    /\ exit_code = 0

\* a run through the pipeline is no call of a single function
NoCall == [function |-> "none"]
NoResult == [raised |-> "not_called"]

\* what a call hands back: a value, or the exception it raised
Returns(value) == [raised |-> "none", value |-> value]
Raises(exception) == [raised |-> exception]

StartState == pc = "segment_audio_file" /\ EmptyRun /\ call = NoCall /\ result = NoResult

\* a direct call of segment_audio_file on an AudioProcessor of any accepted configuration
InitSegmenter ==
    /\ entry = "segment_audio_file"
    /\ segment_duration_ms \in 1..MaxSegMs
    /\ overlap_k \in 0..(OverlapDen - 1)
    /\ min_segment_duration_ms \in 1..MaxSegMs
    /\ ValidConfig(segment_duration_ms, overlap_k, min_segment_duration_ms)
    /\ class_names = <<"blocks", "prolongations", "repetitions">>
    /\ clip_ms \in 0..MaxClipMs
    /\ StartState

\* segment_audio_file, line 343: a clip longer than MaxDur * DurUnit ms (three
\* windows), which is analysed through analyze_audio_file
ScenarioClipsMs == {7000}
ScenarioEntries == {"analyze_audio_file"}

\* process_audio_file: `with AudioProcessor() as processor` (the default configuration)
InitService ==
    /\ entry \in {"analyze_audio_file", "analyze_audio_file_precise",
                  "run_analysis_from_flutter", "audio_processor.main",
                  "cnn_analysis_service.main"}
    /\ segment_duration_ms = DefaultSegmentMs
    /\ overlap_k = OverlapDen \div 2
    /\ min_segment_duration_ms = DefaultMinSegmentMs
    /\ class_names \in ClassNameLists
    /\ clip_ms \in { d * DurUnit : d \in 0..MaxDur }
                   \cup (IF entry \in ScenarioEntries THEN ScenarioClipsMs ELSE {})
    /\ StartState

\* FlutterCNNService.analyze_audio called on a constructed service, or main of
\* flutter_cnn_service.py, which constructs the service itself
InitFlutter ==
    /\ entry \in {"FlutterCNNService.analyze_audio", "flutter_cnn_service.main"}
    /\ segment_duration_ms = DefaultSegmentMs
    /\ overlap_k = OverlapDen \div 2
    /\ min_segment_duration_ms = DefaultMinSegmentMs
    /\ class_names = <<"blocks", "prolongations", "repetitions">>
    /\ clip_ms \in { d * DurUnit : d \in 0..MaxDur }
    /\ pc = IF entry = "flutter_cnn_service.main" THEN "flutter_main" ELSE "analyze_audio"
    /\ EmptyRun
    /\ call = NoCall
    /\ result = NoResult

Init == InitSegmenter \/ InitService \/ InitFlutter

step_size_ms == StepSizeMs(segment_duration_ms, overlap_k)

\* segment_audio_file, lines 334-368: load, extend, count
SegmentLoad ==
    /\ pc = "segment_audio_file"
    /\ \E loaded \in BOOLEAN :
         IF ~loaded
         THEN /\ seg_error' = "load_failed"
              /\ pc' = "segment_raised"
              /\ UNCHANGED <<duration_ms, num_segments>>
         ELSE IF clip_ms = 0
         THEN /\ seg_error' = "empty"
              /\ pc' = "segment_raised"
              /\ UNCHANGED <<duration_ms, num_segments>>
         ELSE IF clip_ms > segment_duration_ms /\ step_size_ms = 0
         THEN /\ seg_error' = "ZeroDivisionError"
              /\ pc' = "segment_raised"
              /\ UNCHANGED <<duration_ms, num_segments>>
         ELSE /\ duration_ms' = ExtendedDuration(clip_ms, segment_duration_ms,
                                                 min_segment_duration_ms)
              /\ num_segments' = NumSegments(duration_ms', segment_duration_ms,
                                             step_size_ms)
              /\ pc' = "segment_loop"
              /\ UNCHANGED seg_error
    /\ UNCHANGED <<process, unit, history, config, results, precise, i, faults, windows, spectrogram_paths,
                   report>>

\* the window the segmentation loop builds in iteration n (0-based)
Window(n, outcome) ==
    [ index    |-> n + 1,
      start_ms |-> StartMs(n, step_size_ms),
      end_ms   |-> EndMs(n, step_size_ms, segment_duration_ms, duration_ms),
      length   |-> PaddedLength(EndMs(n, step_size_ms, segment_duration_ms, duration_ms)
                                  - StartMs(n, step_size_ms),
                                segment_duration_ms, min_segment_duration_ms),
      outcome  |-> outcome ]

\* an exception that is not handled where it is raised, as it was raised:
\* the stage, and the window (1-based) that was being processed, 0 if none
Raised(exception, stage, window) ==
    [exception |-> exception, stage |-> stage, window |-> window]

\* segment_audio_file, lines 389-407: the sets of files iteration n (1-based)
\* can leave in temp_dir: segment_{n}.wav once it is exported and
\* spectrogram_{n}.png once it is saved.  An export or a save that raises may
\* have created its file before it raised; no handler removes it
WindowFiles(outcome, n) ==
    IF outcome = "ok" THEN { {<<"segment", n>>, <<"spectrogram", n>>} }
    ELSE IF outcome = "save_failed"
    THEN { {<<"segment", n>>}, {<<"segment", n>>, <<"spectrogram", n>>} }
    ELSE IF outcome = "spectrogram_failed" THEN { {<<"segment", n>>} }
    ELSE IF outcome \in {"export_failed", "export_MemoryError", "KeyboardInterrupt"}
    THEN { {}, {<<"segment", n>>} }
    ELSE { {} }

\* the window outcomes that raise a KeyboardInterrupt or a MemoryError, and
\* the stage they raise it in
RaisingOutcomes == {"KeyboardInterrupt", "MemoryError", "export_MemoryError"}
RaisedBy(outcome, window) ==
    IF outcome = "KeyboardInterrupt" THEN Raised("KeyboardInterrupt", "export", window)
    ELSE IF outcome = "MemoryError" THEN Raised("MemoryError", "slice", window)
    ELSE Raised("MemoryError", "export", window)

\* segment_audio_file, lines 370-423: one iteration of the loop.  The handlers
\* of lines 392, 398 and 405 catch Exception, hence MemoryError, and go on to
\* the next window; those of lines 414-419 re-raise
SegmentWindow ==
    /\ pc = "segment_loop"
    /\ i < num_segments
    /\ \E outcome \in WindowOutcomes :
         /\ outcome # "ok" => faults < MaxFaults
         /\ windows' = Append(windows, Window(i, outcome))
         /\ spectrogram_paths' = IF outcome = "ok"
                                 THEN Append(spectrogram_paths, i + 1)
                                 ELSE spectrogram_paths
         /\ faults' = IF outcome = "ok" THEN faults ELSE faults + 1
         /\ raised' = IF outcome \in RaisingOutcomes
                      THEN Append(raised, RaisedBy(outcome, i + 1))
                      ELSE raised
         /\ IF outcome \in {"KeyboardInterrupt", "MemoryError"}
            THEN /\ seg_error' = outcome
                 /\ pc' = "segment_raised"
                 /\ UNCHANGED i
            ELSE /\ i' = i + 1
                 /\ UNCHANGED <<seg_error, pc>>
    /\ \E files \in WindowFiles(windows'[Len(windows')].outcome, i + 1) :
         temp_files' = temp_files \cup files
    /\ UNCHANGED <<exit_code, unit, config, results, precise, duration_ms, num_segments, report,
                   model_load, predictor, aggregation_error>>

\* segment_audio_file, lines 425-428: the end of the loop
SegmentReturn ==
    /\ pc = "segment_loop"
    /\ i = num_segments
    /\ IF spectrogram_paths = << >>
       THEN /\ seg_error' = "RuntimeError"
            /\ pc' = "segment_raised"
       ELSE /\ pc' = "segment_returned"
            /\ UNCHANGED seg_error
    /\ UNCHANGED <<process, unit, history, config, results, precise, duration_ms, num_segments, i, faults,
                   windows, spectrogram_paths, report>>

\* the entry points that go through run_analysis_from_flutter
FlutterEntries == {"run_analysis_from_flutter", "cnn_analysis_service.main"}
CoarseEntries == {"analyze_audio_file"} \cup FlutterEntries
ServiceEntries ==
    CoarseEntries \cup {"analyze_audio_file_precise", "audio_processor.main"}
InService == entry \in ServiceEntries

\* analyze_audio_file, lines 83-99, analyze_audio_file_precise, lines 138-151,
\* run_analysis_from_flutter, lines 377-380: a check of the arguments raises
\* before process_audio_file is called
EntryCheckRaises ==
    /\ InService
    /\ pc = "segment_audio_file"
    /\ pc' = "check_raised"
    /\ UNCHANGED <<process, unit, history, config, segmenter, results, precise, i, report>>

\* AudioProcessor.__exit__, lines 82-91: what is in temp_dir once the with block
\* of process_audio_file is left.  shutil.rmtree removes the files one by one,
\* in the order of the directory listing, and raises at the first it cannot
\* remove, which is logged only: that file and those listed after it stay
AfterExit == SUBSET temp_files

\* process_audio_file, lines 654 and 735-738: __enter__ raises what mkdtemp
\* raised (lines 72-80); the outer handler appends str(e), without a label,
\* and the results are returned with nothing segmented
ProcessEnterRaises ==
    /\ InService
    /\ pc = "segment_audio_file"
    /\ errors' = Append(errors, ErrorEntry("[Errno 28] No space left on device", 0))
    /\ pc' = "results"
    /\ UNCHANGED <<process, unit, history, config, segmenter, precise, segments, summary, i, report>>

\* segment_audio_file raised, and the run goes on to the predictor all the same
ProcessSegmentationError_GoOn ==
    /\ InService
    /\ pc = "segment_raised"
    /\ seg_error # "KeyboardInterrupt"
    /\ errors' = Append(errors, ErrorEntry("Segmentation error", 0))
    /\ pc' = "segment_returned"
    /\ UNCHANGED <<process, unit, history, config, segmenter, precise, segments, summary, i, report>>

\* process_audio_file, lines 656-663: segment_audio_file raised an Exception
\* (a MemoryError is one, a KeyboardInterrupt is not)
ProcessSegmentationError ==
    /\ InService
    /\ pc = "segment_raised"
    /\ seg_error # "KeyboardInterrupt"
    /\ errors' = Append(errors, ErrorEntry("Segmentation error", 0))
    /\ pc' = "results"
    /\ temp_files' \in AfterExit
    /\ UNCHANGED <<exit_code, unit, history, config, segmenter, precise, segments, summary, i, report>>

\* process_audio_file, lines 677-683: the model is loaded, or fails to load
ProcessLoadModel ==
    /\ InService
    /\ pc = "segment_returned"
    /\ \E loaded \in BOOLEAN :
         IF loaded
         THEN /\ pc' = "predict_loop"
              /\ i' = 0
              /\ model_load' = "loaded"
              /\ UNCHANGED errors
         ELSE /\ errors' = Append(errors, ErrorEntry("Model loading error", 0))
              /\ pc' = "results"
              /\ model_load' = "failed"
              /\ UNCHANGED i
    /\ temp_files' \in IF model_load' = "failed" THEN AfterExit ELSE {temp_files}
    /\ UNCHANGED <<exit_code, unit, config, segmenter, precise, segments, summary, report, predictor,
                   raised, aggregation_error>>

\* predict_spectrograms, lines 596-624: one iteration of the loop, which
\* appends to the list the function returns.  The handler of line 616 catches
\* Exception, hence MemoryError, and appends an error result; what the
\* handler itself raises (while it logs str(e) or appends) leaves the
\* function, as does a KeyboardInterrupt
PredictSpectrogram ==
    /\ pc = "predict_loop"
    /\ i < Len(spectrogram_paths)
    /\ \/ \E vector \in ProbVectors :
            /\ predictions' = Append(predictions,
                                     SuccessResult(i, spectrogram_paths[i + 1], vector,
                                                   class_names))
            /\ vectors' = Append(vectors, vector)
            /\ i' = i + 1
            /\ UNCHANGED <<raised, pc>>
       \/ \E memory \in BOOLEAN :
            /\ predictions' = Append(predictions,
                                     FailureResult(i, spectrogram_paths[i + 1]))
            /\ vectors' = Append(vectors, << >>)
            /\ raised' = IF memory
                         THEN Append(raised, Raised("MemoryError", "classification",
                                                    spectrogram_paths[i + 1]))
                         ELSE raised
            /\ i' = i + 1
            /\ UNCHANGED pc
       \/ \E exception \in {"Exception", "MemoryError"} :
            /\ raised' = Append(raised, Raised(exception, "handler",
                                               spectrogram_paths[i + 1]))
            /\ pc' = "predict_raised"
            /\ UNCHANGED <<predictor, i>>
       \/ /\ raised' = Append(raised, Raised("KeyboardInterrupt", "classification",
                                             spectrogram_paths[i + 1]))
          /\ pc' = "interrupted"
          /\ UNCHANGED <<predictor, i>>
    /\ UNCHANGED <<process, unit, config, segmenter, precise, results, report, model_load,
                   aggregation_error>>

\* process_audio_file, lines 685-690: predict_spectrograms raised an Exception;
\* it is recorded, and the results are returned with results['segments'] and
\* results['summary'] as they were initialised
ProcessPredictionError ==
    /\ pc = "predict_raised"
    /\ errors' = Append(errors, ErrorEntry("Prediction error", 0))
    /\ pc' = "results"
    /\ temp_files' \in AfterExit
    /\ UNCHANGED <<exit_code, unit, history, config, segmenter, precise, segments, summary, i, report>>

\* process_audio_file, lines 692-725 and 740: predict_spectrograms has
\* returned; its list is stored in results['segments'], the summary is built,
\* and the results are returned.  The summary of a run with successful
\* predictions is built inside a try whose handler leaves results['summary'] = {}
ProcessSummary ==
    /\ pc = "predict_loop"
    /\ i = Len(spectrogram_paths)
    /\ segments' = predictions
    /\ \E thrown \in BOOLEAN :
         /\ thrown => Successful(predictions) # << >>
         /\ IF thrown
            THEN /\ errors' = Append(errors, ErrorEntry("Summary calculation error", 0))
                 /\ aggregation_error' = "summary"
                 /\ UNCHANGED summary
            ELSE /\ summary' = Summarize(predictions)
                 /\ UNCHANGED <<errors, aggregation_error>>
    /\ pc' = "results"
    /\ temp_files' \in AfterExit
    /\ UNCHANGED <<exit_code, unit, config, segmenter, precise, i, report, model_load, predictor,
                   raised>>

\* process_audio_file, lines 727-730: a KeyboardInterrupt reached the outer
\* handler, which records it in results['errors'] and raises it again;
\* results['segments'] is still the empty list, as line 692 was not reached
ProcessKeyboardInterrupt ==
    /\ InService
    /\ \/ pc = "segment_raised" /\ seg_error = "KeyboardInterrupt"
       \/ pc = "interrupted"
    /\ errors' = Append(errors, ErrorEntry("Processing interrupted by user", 0))
    /\ pc' = "propagated"
    /\ temp_files' \in AfterExit
    /\ UNCHANGED <<exit_code, unit, history, config, segmenter, precise, segments, summary, i, report>>

\* process_audio_file, lines 692-725 and 731-734: a MemoryError outside the
\* inner handlers reaches the outer handler, which records it and raises it
\* again.  It is raised before the predictions are stored in
\* results['segments'] (line 692), while they are filtered (line 694), or
\* once the summary has been built or has failed to build (line 725)
ProcessMemoryError ==
    /\ pc = "predict_loop"
    /\ i = Len(spectrogram_paths)
    /\ \E line \in {692, 694, 725} :
         \E thrown \in BOOLEAN :
            /\ thrown => (line = 725 /\ Successful(predictions) # << >>)
            /\ segments' = IF line = 692 THEN segments ELSE predictions
            /\ summary' = IF line = 725 /\ ~thrown THEN Summarize(predictions) ELSE summary
            /\ aggregation_error' = IF thrown THEN "summary" ELSE aggregation_error
            /\ errors' = (IF thrown
                          THEN Append(errors, ErrorEntry("Summary calculation error", 0))
                          ELSE errors)
                         \o <<ErrorEntry("Out of memory error", 0)>>
    /\ raised' = Append(raised, Raised("MemoryError", "summary", 0))
    /\ pc' = "propagated"
    /\ temp_files' \in AfterExit
    /\ UNCHANGED <<exit_code, unit, config, segmenter, precise, i, report, model_load, predictor>>

\* analyze_audio_file, lines 113-134: the report, or the fallback report when
\* _format_results_for_flutter raised, which it can while it builds an event
\* (lines 319-328)
AnalyzeAudioFile ==
    /\ entry \in CoarseEntries
    /\ pc = "results"
    /\ \E thrown \in BOOLEAN :
         /\ thrown => \E j \in 1..Len(segments) : Emits(segments[j])
         /\ IF thrown
            THEN /\ report' = FallbackReport("Error formatting results")
                 /\ aggregation_error' = "format"
            ELSE /\ report' = FormatResultsForFlutter(segments, summary, errors)
                 /\ UNCHANGED aggregation_error
    /\ pc' = "done"
    /\ UNCHANGED <<process, unit, config, segmenter, results, precise, i, model_load, predictor, raised>>

\* analyze_audio_file_precise, lines 165-173: the localizer is constructed
PreciseStart ==
    /\ entry = "analyze_audio_file_precise"
    /\ pc = "results"
    /\ \E constructed \in BOOLEAN :
         pc' = IF constructed THEN "precise_loop" ELSE "raised"
    /\ i' = 0
    /\ UNCHANGED <<process, unit, history, config, segmenter, results, precise, report>>

\* analyze_audio_file_precise, lines 175-227: one iteration of the loop
PreciseSegment ==
    /\ pc = "precise_loop"
    /\ i < Len(segments)
    /\ IF segments[i + 1].failed
       THEN /\ precise_errors' = Append(precise_errors,
                                        ErrorEntry("Segment", segments[i + 1].segment_index))
            /\ UNCHANGED <<precise_events, localized>>
       ELSE \/ \E sub \in LocalizerOutputs :
                 /\ precise_events' = precise_events \o PreciseEventsOf(segments[i + 1], sub)
                 /\ localized' = Append(localized,
                                        [image |-> segments[i + 1].image,
                                         failed |-> FALSE, events |-> sub])
                 /\ UNCHANGED precise_errors
            \/ /\ precise_errors' = Append(precise_errors,
                                           ErrorEntry("Segment", segments[i + 1].segment_index))
               /\ localized' = Append(localized,
                                      [image |-> segments[i + 1].image,
                                       failed |-> TRUE, events |-> << >>])
               /\ UNCHANGED precise_events
    /\ i' = i + 1
    /\ UNCHANGED <<process, unit, history, config, segmenter, results, pc, report>>

\* analyze_audio_file_precise, lines 229-282: the summary, or the summary of
\* the handler of line 255 when building it from the events raised, and the
\* report
PreciseReturn ==
    /\ pc = "precise_loop"
    /\ i = Len(segments)
    /\ \E thrown \in BOOLEAN :
         /\ thrown => precise_events # << >>
         /\ IF thrown
            THEN /\ report' = PreciseReportSummaryError(precise_events, precise_errors,
                                                       errors)
                 /\ aggregation_error' = "precise_summary"
            ELSE /\ report' = PreciseReport(precise_events, precise_errors, summary,
                                           errors)
                 /\ UNCHANGED aggregation_error
    /\ pc' = "done"
    /\ UNCHANGED <<process, unit, config, segmenter, results, precise, i, model_load, predictor, raised>>

\* the message of the fallback report run_analysis_from_flutter builds for
\* what analyze_audio_file raised, or for the AttributeError of line 392
FlutterErrorText ==
    IF pc = "done" THEN "module 'json' has no attribute 'JSONEncodeError'"
    ELSE IF pc = "check_raised" THEN "Exception"
    ELSE IF raised[Len(raised)].exception = "KeyboardInterrupt"
         THEN "Analysis interrupted by user"
         ELSE "Out of memory error"

\* run_analysis_from_flutter, lines 382-446: the report of analyze_audio_file
\* is passed on; what it raised is turned into a fallback report.  When the
\* report cannot be written to output_json_path (lines 386-391), matching the
\* exception against the handler of line 392 evaluates json.JSONEncodeError,
\* which does not exist: the AttributeError reaches the handler of line 426
RunAnalysisFromFlutter ==
    /\ entry \in FlutterEntries
    /\ pc \in {"done", "check_raised", "propagated"}
    /\ \E saved \in BOOLEAN :
         /\ ~saved => pc = "done"
         /\ report' = IF pc = "done" /\ saved THEN report
                      ELSE FallbackReport(FlutterErrorText)
    /\ pc' = "returned"
    /\ UNCHANGED <<process, unit, history, config, segmenter, results, precise, i>>

\* the entry points of flutter_cnn_service.py
FlutterServiceEntries == {"FlutterCNNService.analyze_audio", "flutter_cnn_service.main"}

\* FlutterCNNService.__init__, lines 25-51, called by main at line 133: the
\* service is constructed, or __init__ raises RuntimeError (line 31,
\* pytorch_cnn_service cannot be imported; line 51, PyTorchCNNService failed)
\* or FileNotFoundError (line 35, no model file), which leaves main
FlutterServiceInit ==
    /\ entry = "flutter_cnn_service.main"
    /\ pc = "flutter_main"
    /\ \E outcome \in {"constructed", "RuntimeError", "FileNotFoundError"} :
         IF outcome = "constructed"
         THEN /\ pc' = "analyze_audio"
              /\ UNCHANGED raised
         ELSE /\ raised' = Append(raised, Raised(outcome, "construct", 0))
              /\ pc' = "main_raised"
    /\ UNCHANGED <<process, unit, config, segmenter, results, precise, i, report, model_load,
                   predictor, aggregation_error>>

\* FlutterCNNService.analyze_audio, lines 69-122: a fallback report when the
\* file does not exist or the delegate raises an Exception, else the
\* delegate's report; a KeyboardInterrupt of the delegate is not caught.  The
\* branch of lines 86-99 is not taken on a constructed service, which has
\* use_pytorch set and a pytorch_service (lines 39-45)
FlutterAnalyzeAudio ==
    /\ entry \in FlutterServiceEntries
    /\ pc = "analyze_audio"
    /\ \E outcome \in {"not_found", "failed", "ok", "KeyboardInterrupt"} :
         IF outcome = "KeyboardInterrupt"
         THEN /\ raised' = Append(raised, Raised("KeyboardInterrupt", "delegate", 0))
              /\ pc' = "propagated"
              /\ UNCHANGED report
         ELSE /\ report' = IF outcome = "not_found"
                           THEN FallbackReport("Audio file not found")
                           ELSE IF outcome = "failed"
                           THEN FallbackReport("PyTorch CNN analysis failed")
                           ELSE PyTorchReport
              /\ pc' = "returned"
              /\ UNCHANGED raised
    /\ UNCHANGED <<process, unit, config, segmenter, results, precise, i, model_load, predictor,
                   aggregation_error>>

\* main of flutter_cnn_service.py, lines 124-141: the report is written to
\* --output and printed, and main returns None; it has no handler, so what
\* open raises leaves main (as does what analyze_audio raised, pc = "propagated")
FlutterCnnServiceMain ==
    /\ entry = "flutter_cnn_service.main"
    /\ pc = "returned"
    /\ \E saved \in BOOLEAN :
         IF saved
         THEN /\ exit_code' = 0
              /\ pc' = "exited"
         ELSE /\ pc' = "main_raised"
              /\ UNCHANGED exit_code
    /\ UNCHANGED <<config, segmenter, results, precise, history, temp_files, unit, i, report>>

\* what process_audio_file raised to its caller
Propagated ==
    IF pc = "check_raised" THEN "ValueError" ELSE raised[Len(raised)].exception

\* main of audio_processor.py, lines 742-786: 0 once process_audio_file has
\* returned its results, 130 for a KeyboardInterrupt, 1 for an Exception.
\* When the results cannot be written to --output-json (lines 755-763),
\* matching the exception against the handler of line 764 evaluates
\* json.JSONEncodeError, which does not exist: the AttributeError is an
\* Exception, and main returns 1
AudioProcessorMain ==
    /\ entry = "audio_processor.main"
    /\ pc \in {"results", "check_raised", "propagated"}
    /\ \E saved \in BOOLEAN :
         /\ ~saved => pc = "results"
         /\ exit_code' = IF pc = "results" THEN (IF saved THEN 0 ELSE 1)
                         ELSE IF Propagated = "KeyboardInterrupt" THEN 130
                         ELSE 1
    /\ pc' = "exited"
    /\ UNCHANGED <<config, segmenter, results, precise, history, temp_files, unit, i, report>>

\* main of cnn_analysis_service.py, lines 448-470: run_analysis_from_flutter
\* has returned its JSON text, which is printed
CnnAnalysisServiceMain ==
    /\ entry = "cnn_analysis_service.main"
    /\ pc = "returned"
    /\ exit_code' = 0
    /\ pc' = "exited"
    /\ UNCHANGED <<config, segmenter, results, precise, history, temp_files, unit, i, report>>

Next ==
    \/ SegmentLoad
    \/ ProcessEnterRaises
    \/ SegmentWindow
    \/ SegmentReturn
    \/ EntryCheckRaises
    \/ ProcessSegmentationError
    \/ ProcessLoadModel
    \/ PredictSpectrogram
    \/ ProcessPredictionError
    \/ ProcessSummary
    \/ ProcessKeyboardInterrupt
    \/ ProcessMemoryError
    \/ AnalyzeAudioFile
    \/ PreciseStart
    \/ PreciseSegment
    \/ PreciseReturn
    \/ RunAnalysisFromFlutter
    \/ FlutterServiceInit
    \/ FlutterAnalyzeAudio
    \/ AudioProcessorMain
    \/ CnnAnalysisServiceMain
    \/ FlutterCnnServiceMain

Spec == Init /\ [][Next]_vars

(***************************************************************************)
(* Single calls of the helper functions and of the constructor: the call   *)
(* is drawn in the initial state, the action applies the function to it.   *)
(***************************************************************************)
\* largest confidence of a call, in hundredths
MaxConfidence == 100

CalculateSeverity_Strict(confidence) ==
    IF confidence > 80 THEN "high"
    ELSE IF confidence > 60 THEN "medium"
    ELSE IF confidence > 40 THEN "low"
    ELSE "very_low"

\* CNNAnalysisService._calculate_severity, the confidence in hundredths
CalculateSeverity(confidence) ==
    IF confidence >= 80 THEN "high"
    ELSE IF confidence >= 60 THEN "medium"
    ELSE IF confidence >= 40 THEN "low"
    ELSE "very_low"

\* largest height and width of an input array
MaxDim == 6
\* fraction bits of the scale factors
ScaleBits == 16
\* AudioProcessor.__init__: target_size = (128, 128)
DefaultTargetDim == 128

\* target / current, a float division: the nearest representable quotient
ScaleFactor(target, current) ==
    (2 * target * 2^ScaleBits + current) \div (2 * current)

ZoomLength_Floor(n, scale) == (n * scale) \div 2^ScaleBits

\* scipy.ndimage.zoom: the output has int(round(n * scale)) entries on an axis
ZoomLength(n, scale) == (2 * n * scale + 2^ScaleBits) \div 2^(ScaleBits + 1)

\* spectrogram.size
ArraySize(shape) ==
    IF Len(shape) = 1 THEN shape[1]
    ELSE IF Len(shape) = 2 THEN shape[1] * shape[2]
    ELSE shape[1] * shape[2] * shape[3]

\* AudioProcessor.resize_spectrogram, on the shape of the array
ResizeSpectrogram(shape, target_size) ==
    IF ArraySize(shape) = 0 THEN Raises("ValueError")
    ELSE IF Len(shape) # 2 THEN Raises("ValueError")
    ELSE LET height_scale == ScaleFactor(target_size[1], shape[1])
             width_scale == ScaleFactor(target_size[2], shape[2])
         IN  IF height_scale <= 0 \/ width_scale <= 0 THEN Raises("ValueError")
             ELSE Returns(<<Min(ZoomLength(shape[1], height_scale), target_size[1]),
                            Min(ZoomLength(shape[2], width_scale), target_size[2])>>)

\* the shapes of the arrays handed to resize_spectrogram
Shapes ==
    { <<n>> : n \in 0..MaxDim }
        \cup { <<h, w>> : h \in 0..MaxDim, w \in 0..MaxDim }
        \cup { <<1, 1, 1>> }

TargetDims == {0, 1, MaxDim \div 2, DefaultTargetDim}

\* the calls resize_spectrogram(array, (H, W))
ResizeCalls ==
    { [function |-> "resize_spectrogram", shape |-> s, target_size |-> <<H, W>>] :
          s \in Shapes, H \in TargetDims, W \in TargetDims }

\* a float argument: a number (durations in ms, the overlap in 1/OverlapDen) or nan
Num(v) == [nan |-> FALSE, v |-> v]
NaN == [nan |-> TRUE, v |-> 0]

\* float comparisons: every comparison with nan is false
LessEq(a, b) == ~a.nan /\ ~b.nan /\ a.v <= b.v
Less(a, b) == ~a.nan /\ ~b.nan /\ a.v < b.v
Greater(a, b) == ~a.nan /\ ~b.nan /\ a.v > b.v

\* AudioProcessor.__init__: the checks in their order, then the attributes
AudioProcessorInit(segment_duration, target_size, overlap_ratio, min_segment_duration) ==
    IF LessEq(segment_duration, Num(0)) THEN Raises("ValueError")
    ELSE IF ~target_size.tuple \/ Len(target_size.items) # 2 THEN Raises("ValueError")
    ELSE IF \E n \in 1..2 : ~target_size.items[n].int \/ target_size.items[n].v <= 0
        THEN Raises("ValueError")
    ELSE IF ~(LessEq(Num(0), overlap_ratio) /\ Less(overlap_ratio, Num(OverlapDen)))
        THEN Raises("ValueError")
    ELSE IF LessEq(min_segment_duration, Num(0)) THEN Raises("ValueError")
    ELSE IF Greater(min_segment_duration, segment_duration) THEN Raises("ValueError")
    ELSE Returns([segment_duration |-> segment_duration, target_size |-> target_size,
                  overlap_ratio |-> overlap_ratio,
                  min_segment_duration |-> min_segment_duration])

\* the duration arguments of a constructor call
DurationArgs == { Num(v) : v \in -1..MaxSegMs } \cup {NaN}
\* the overlap arguments of a constructor call
OverlapArgs == { Num(k) : k \in -1..OverlapDen } \cup {NaN}
\* the entries of a target_size argument: ints, and one float
TargetItems ==
    { [int |-> TRUE, v |-> x] : x \in {-1, 0, 1, DefaultTargetDim} }
        \cup { [int |-> FALSE, v |-> DefaultTargetDim] }
\* the target_size arguments: tuples of one, two or three entries, and a list
TargetArgs ==
    { [tuple |-> TRUE, items |-> <<a>>] : a \in TargetItems }
        \cup { [tuple |-> TRUE, items |-> <<a, b>>] : a \in TargetItems, b \in TargetItems }
        \cup { [tuple |-> TRUE, items |-> <<a, a, a>>] : a \in TargetItems }
        \cup { [tuple |-> FALSE, items |-> <<a, a>>] : a \in TargetItems }

\* the calls AudioProcessor(segment_duration, target_size, overlap_ratio, min_segment_duration)
ConstructorCalls ==
    { [function |-> "AudioProcessor", segment_duration |-> S, target_size |-> T,
       overlap_ratio |-> r, min_segment_duration |-> m] :
          S \in DurationArgs, T \in TargetArgs, r \in OverlapArgs, m \in DurationArgs }

\* the calls _calculate_severity(c / 100)
SeverityCalls ==
    { [function |-> "_calculate_severity", confidence |-> c] : c \in 0..MaxConfidence }

FunctionCalls == SeverityCalls \cup ResizeCalls \cup ConstructorCalls

\* the state before a single call: no clip is being processed
InitFunctions ==
    /\ entry = "call"
    /\ segment_duration_ms = DefaultSegmentMs
    /\ overlap_k = OverlapDen \div 2
    /\ min_segment_duration_ms = DefaultMinSegmentMs
    /\ class_names = <<"blocks", "prolongations", "repetitions">>
    /\ clip_ms = 0
    /\ pc = "call"
    /\ EmptyRun
    /\ call \in FunctionCalls
    /\ result = NoResult

\* the call of _calculate_severity returns
CallCalculateSeverity ==
    /\ pc = "call"
    /\ call.function = "_calculate_severity"
    /\ result' = Returns(CalculateSeverity(call.confidence))
    /\ pc' = "called"
    /\ UNCHANGED <<config, segmenter, results, precise, history, process, call, i, report>>

\* the call of resize_spectrogram returns or raises
CallResizeSpectrogram ==
    /\ pc = "call"
    /\ call.function = "resize_spectrogram"
    /\ result' = ResizeSpectrogram(call.shape, call.target_size)
    /\ pc' = "called"
    /\ UNCHANGED <<config, segmenter, results, precise, history, process, call, i, report>>

\* the constructor returns the AudioProcessor or raises
CallAudioProcessor ==
    /\ pc = "call"
    /\ call.function = "AudioProcessor"
    /\ result' = AudioProcessorInit(call.segment_duration, call.target_size,
                                    call.overlap_ratio, call.min_segment_duration)
    /\ pc' = "called"
    /\ UNCHANGED <<config, segmenter, results, precise, history, process, call, i, report>>

NextFunctions ==
    \/ CallCalculateSeverity
    \/ CallResizeSpectrogram
    \/ CallAudioProcessor

FunctionSpec == InitFunctions /\ [][NextFunctions]_vars

(***************************************************************************)
(* Claims.                                                                 *)
(***************************************************************************)
\* segment_audio_file has returned or raised
SegmentationOver ==
    seg_error # "none" \/ (num_segments > 0 /\ pc # "segment_loop")

\* the clip was loaded (it has a duration)
ClipLoaded == seg_error # "load_failed"

\* the segmentation loop was not left by a KeyboardInterrupt or a MemoryError
LoopCompleted == seg_error \notin {"KeyboardInterrupt", "MemoryError"}

\* C1: for every valid configuration and every clip longer than the segment
\* duration, segment_audio_file attempts exactly max(1, floor((D-S)/step)+1)
\* windows with step = floor(S*(1-r)), window i starts at i*step, and the last
\* window ends at or before D.
C1_WindowCount ==
    (SegmentationOver /\ ClipLoaded /\ LoopCompleted
       /\ clip_ms > segment_duration_ms) =>
        /\ step_size_ms >= 1
        /\ Len(windows) = Max(1, ((clip_ms - segment_duration_ms) \div step_size_ms) + 1)
        /\ \A n \in 1..Len(windows) : windows[n].start_ms = (n - 1) * step_size_ms
        /\ windows[Len(windows)].end_ms <= clip_ms

\* C2: the windows cover the clip: every millisecond t of [0, D) lies in the
\* [start_ms, end_ms) span of at least one window.
C2_WindowsCoverClip ==
    (SegmentationOver /\ seg_error \in {"none", "RuntimeError"}) =>
        \A t \in 0..(clip_ms - 1) :
            \E n \in 1..Len(windows) :
                windows[n].start_ms <= t /\ t < windows[n].end_ms

\* C3: a clip no longer than the segment duration yields exactly one window,
\* starting at 0; a clip shorter than the minimum is first extended to exactly
\* the minimum, so the window spans [0, m), and otherwise it spans [0, D).
C3_SingleWindow ==
    (SegmentationOver /\ ClipLoaded /\ 0 < clip_ms /\ clip_ms <= segment_duration_ms) =>
        /\ Len(windows) = 1
        /\ windows[1].start_ms = 0
        /\ IF clip_ms < min_segment_duration_ms
           THEN /\ duration_ms = min_segment_duration_ms
                /\ windows[1].end_ms = min_segment_duration_ms
           ELSE windows[1].end_ms = clip_ms

\* a clip shorter than the minimum has been segmented
C3_Witness ==
    /\ SegmentationOver
    /\ ClipLoaded
    /\ 0 < clip_ms
    /\ clip_ms < min_segment_duration_ms
    /\ Len(windows) = 1
    /\ windows[1].end_ms > clip_ms

\* the coarse entry point has returned the report of its formatter
CoarseDone ==
    pc = "done" /\ entry = "analyze_audio_file" /\ aggregation_error # "format"

\* the precise entry point has returned its report
PreciseDone == pc = "done" /\ entry = "analyze_audio_file_precise"

\* the events of the report that came from window w
EventsOfWindow(w) == { j \in 1..Len(report.events) : report.events[j].image = w }

\* window w was classified successfully with a confidence of at least 0.3
ClassifiedAboveThreshold(w) ==
    \E j \in 1..Len(segments) :
        /\ segments[j].image = w
        /\ ~segments[j].failed
        /\ segments[j].confidence >= ConfidenceThreshold

\* window w was classified successfully as a class other than 'none' with a
\* confidence that is not below 0.3
ClassifiedAsEvent(w) ==
    \E j \in 1..Len(segments) :
        /\ segments[j].image = w
        /\ ~segments[j].failed
        /\ segments[j].predicted_class # "none"
        /\ segments[j].confidence >= ConfidenceThreshold

\* C4 as stated: in coarse mode a window has an event if and only if it was
\* classified successfully with confidence >= 0.3, and never more than one.
C4_EventIffConfident ==
    CoarseDone =>
        \A w \in 1..Len(windows) :
            /\ (EventsOfWindow(w) # {}) <=> ClassifiedAboveThreshold(w)
            /\ Cardinality(EventsOfWindow(w)) <= 1

\* C4 as amended: in coarse mode a window has an event if and only if it was
\* classified successfully, its predicted class is not named 'none' and its
\* confidence is not below 0.3; a window below 0.3 has no event at all, and
\* no window has more than one event.
C4_EventIffConfidentNotNone ==
    CoarseDone =>
        \A w \in 1..Len(windows) :
            /\ (EventsOfWindow(w) # {}) <=> ClassifiedAsEvent(w)
            /\ Cardinality(EventsOfWindow(w)) <= 1

\* a coarse report with an event at exactly the threshold and with a
\* classified window below it that has none
C4_Witness ==
    /\ CoarseDone
    /\ \E j \in 1..Len(report.events) :
         report.events[j].confidence = ConfidenceThreshold
    /\ \E j \in 1..Len(segments) :
         /\ ~segments[j].failed
         /\ segments[j].confidence < ConfidenceThreshold
         /\ EventsOfWindow(segments[j].image) = {}

\* C5: in coarse mode the span (t0, t1) of every event equals the
\* [start_ms, end_ms) span the Segmenter computed for the event's window.
C5_EventSpanIsWindowSpan ==
    CoarseDone =>
        \A j \in 1..Len(report.events) :
            /\ report.events[j].t0 = windows[report.events[j].image].start_ms
            /\ report.events[j].t1 = windows[report.events[j].image].end_ms

\* the events a localizer return stands for under C6: absolute times are the
\* window's start_ms plus the window-relative times, the rest is carried over
ExpectedPrecise(ret) ==
    [ j \in 1..Len(ret.events) |->
        [ type       |-> ret.events[j].type,
          confidence |-> ret.events[j].confidence,
          severity   |-> ret.events[j].severity,
          t0         |-> windows[ret.image].start_ms + ret.events[j].start_time,
          t1         |-> windows[ret.image].start_ms + ret.events[j].end_time ] ]

\* the events the report holds for window w, in report order, cut to the
\* fields C6 speaks of
ReportedPrecise(w) ==
    LET mine == SelectSeq(report.events, LAMBDA e : e.image = w)
    IN  [ j \in 1..Len(mine) |->
            [ type       |-> mine[j].type,
              confidence |-> mine[j].confidence,
              severity   |-> mine[j].severity,
              t0         |-> mine[j].t0,
              t1         |-> mine[j].t1 ] ]

\* C6: in precise mode every sub-event the localizer returned for a window is
\* one report event whose absolute start and end are the window's start_ms
\* plus the sub-event's relative start and end, with the localizer's type,
\* confidence and severity.
C6_PreciseAbsoluteTimes ==
    PreciseDone =>
        \A r \in 1..Len(localized) :
            ReportedPrecise(localized[r].image) = ExpectedPrecise(localized[r])

\* the run had three windows, all of them got a spectrogram, and the
\* classifier failed on window 2 and on no other (nor did the localizer fail)
OnlyWindowTwoFailed ==
    /\ Len(windows) = 3
    /\ Len(spectrogram_paths) = 3
    /\ Len(segments) = 3
    /\ ~segments[1].failed
    /\ segments[2].failed
    /\ ~segments[3].failed
    /\ \A r \in 1..Len(localized) : ~localized[r].failed

\* C7: with 3 windows of which only window 2 fails in classification, the
\* report holds results and events of windows 1 and 3 only,
\* successful_predictions = 2, total_segments = 3, and its error list has
\* exactly one entry, which references window 2 (coarse and precise mode).
C7_PartialFailureReport ==
    (pc = "done" /\ OnlyWindowTwoFailed) =>
        /\ EventsOfWindow(2) = {}
        /\ report.summary.successfulPredictions = 2
        /\ report.summary.totalSegments = 3
        /\ Len(report.errors) = 1
        /\ report.errors[1].segment = 2

\* C8: in every report of a run that got past segmentation, total_segments is
\* the number of windows the Segmenter attempted, whatever stage a window
\* failed in, and successful_predictions is the number of windows that
\* yielded a classification result.
C8_TotalSegmentsCountsAttempts ==
    (pc = "done" /\ seg_error = "none") =>
        /\ report.summary.totalSegments = Len(windows)
        /\ report.summary.successfulPredictions = Len(Successful(segments))

\* C9: every per-window prediction result, success or failure, carries the
\* index of the window it belongs to, and the timestamps derived from it,
\* also when an earlier window failed in export or feature extraction.
C9_ResultTaggedByWindow ==
    \A j \in 1..Len(segments) :
        /\ segments[j].segment_index = segments[j].image
        /\ segments[j].timestamp_start = (segments[j].image - 1) * TimestampStrideMs

\* the number of events of the report that have the given type
EventsOfType(type) ==
    Cardinality({ j \in 1..Len(report.events) : report.events[j].type = type })

\* C10: in every report the summary matches the emitted events:
\* classDistribution counts, per type, exactly the events of the event list,
\* and averageConfidence is the mean confidence of those events, 0 if none.
C10_SummaryMatchesEvents ==
    pc = "done" =>
        LET dist == report.summary.classDistribution
            avg  == report.summary.averageConfidence
        IN  /\ \A j \in 1..Len(dist) : dist[j].count = EventsOfType(dist[j].key)
            /\ \A j \in 1..Len(report.events) :
                 \E k \in 1..Len(dist) : dist[k].key = report.events[j].type
            /\ IF report.events = << >>
               THEN avg.num = 0
               ELSE avg.num * Len(report.events)
                      = SumConfidence(report.events, Len(report.events)) * avg.den

\* the types the dominant type of a report is chosen among, in the order the
\* run met them: the predicted classes of the classified windows (coarse
\* mode), the types of the events (precise mode)
DominantItems ==
    IF entry = "analyze_audio_file_precise"
    THEN TypeOf(report.events)
    ELSE ClassOf(Successful(segments))

\* how often a type occurs among the items, and where it occurs first
Occurrences(items, t) == Cardinality({ j \in 1..Len(items) : items[j] = t })
FirstOccurrence(items, t) ==
    CHOOSE j \in 1..Len(items) :
        items[j] = t /\ \A k \in 1..(j - 1) : items[k] # t

\* C11: the dominant type of a report is a type with the highest count in the
\* class distribution, and of several types that share the highest count it
\* is the one that was met first in window (event) order.
C11_DominantIsFirstMaximum ==
    (pc = "done" /\ report.summary.classDistribution # << >>) =>
        LET items == DominantItems
            d     == report.summary.dominantType
        IN  /\ \E j \in 1..Len(items) : items[j] = d
            /\ \A j \in 1..Len(items) :
                 /\ Occurrences(items, items[j]) <= Occurrences(items, d)
                 /\ (items[j] # d /\ Occurrences(items, items[j]) = Occurrences(items, d))
                      => FirstOccurrence(items, d) < FirstOccurrence(items, items[j])

\* a report in which two types share the highest count
C11_Witness ==
    /\ pc = "done"
    /\ report.summary.classDistribution # << >>
    /\ \E j \in 1..Len(DominantItems) :
         /\ DominantItems[j] # report.summary.dominantType
         /\ Occurrences(DominantItems, DominantItems[j])
              = Occurrences(DominantItems, report.summary.dominantType)

\* C12: in every report, coarse or precise, the event list is in
\* non-decreasing order of t0, events with equal t0 standing in window order
\* (and, within a window, in the order the localizer returned them), for any
\* sub-event list the localizer returns.
C12_EventsOrderedByStart ==
    pc = "done" =>
        \A j \in 1..Len(report.events), k \in 1..Len(report.events) :
            j < k =>
                /\ report.events[j].t0 <= report.events[k].t0
                /\ report.events[j].t0 = report.events[k].t0
                     => report.events[j].image <= report.events[k].image

\* C13: when segmentation fails because the clip cannot be loaded or has zero
\* duration, the run stops without loading the model or classifying
\* anything, and the report has an empty event list, a summary whose counts
\* are all zero, and exactly one entry in its error list.
C13_SegmentationFailureReport ==
    (pc = "done" /\ seg_error \in {"load_failed", "empty"}) =>
        /\ model_load = "not_tried"
        /\ segments = << >>
        /\ report.events = << >>
        /\ report.summary.segmentCount = 0
        /\ report.summary.totalSegments = 0
        /\ report.summary.successfulPredictions = 0
        /\ report.summary.classDistribution = << >>
        /\ ~report.summary.hasEvents
        /\ Len(report.errors) = 1
        /\ report.errors[1].text = "Segmentation error"

\* a report of a run whose clip could not be loaded
C13_Witness ==
    /\ pc = "done"
    /\ seg_error = "load_failed"
    /\ Len(report.errors) = 1

\* no window produced a result: every window failed in extraction, or every
\* window that got a spectrogram failed in classification
NoWindowResult ==
    \/ seg_error = "RuntimeError"
    \/ /\ model_load = "loaded"
       /\ Len(segments) = Len(spectrogram_paths)
       /\ \A j \in 1..Len(segments) : segments[j].failed

\* an error entry that tells that the run produced no results
NoResultsEntry(e) ==
    e.text = "Segmentation error" /\ e.segment = 0 /\ seg_error = "RuntimeError"

\* C14: when no window produces a result the caller still gets a report, its
\* error list holds a distinguished "no results" entry, and its summary is
\* zeroed.
C14_NoResultsReport ==
    (pc = "done" /\ NoWindowResult) =>
        /\ \E j \in 1..Len(report.errors) : NoResultsEntry(report.errors[j])
        /\ report.events = << >>
        /\ report.summary.successfulPredictions = 0
        /\ report.summary.classDistribution = << >>
        /\ ~report.summary.hasEvents

\* the events that the per-window results of the run stand for
DerivedEvents ==
    IF entry = "analyze_audio_file_precise" THEN precise_events
    ELSE CoarseEvents(segments)

\* C15: when the aggregation stage fails (the summary statistics or the
\* formatting raise), the run does not fail: the report still holds every
\* event derived from the per-window results, and its summary is empty or
\* flagged with the error.
C15_AggregationFailureKeepsEvents ==
    (pc = "done" /\ aggregation_error # "none") =>
        /\ report.events = DerivedEvents
        /\ \/ report.summary.error # ""
           \/ /\ report.summary.successfulPredictions = 0
              /\ report.summary.classDistribution = << >>

\* a KeyboardInterrupt or a MemoryError was raised while a window was being
\* cut, exported, feature-extracted or classified
RaisedInWindow ==
    \E j \in 1..Len(raised) :
        /\ raised[j].window > 0
        /\ raised[j].exception \in {"KeyboardInterrupt", "MemoryError"}

\* the run has stopped and the exception is on its way to, or has reached,
\* the caller of process_audio_file
Propagating ==
    \/ pc = "segment_raised" /\ seg_error \in {"KeyboardInterrupt", "MemoryError"}
    \/ pc \in {"interrupted", "propagated"}
    \/ pc = "returned" /\ "error" \in report.processing_info

\* C16: a KeyboardInterrupt or a MemoryError raised while a window is being
\* exported, feature-extracted or classified stops the run and propagates to
\* the caller of process_audio_file (it is never recorded as a per-window
\* failure after which the next window is processed), and nothing else
\* propagates out of process_audio_file.
C16_OnlyInterruptsPropagate ==
    InService =>
        /\ RaisedInWindow =>
             /\ Propagating
             /\ pc = "propagated" => errors[Len(errors)].text
                                       \in {"Processing interrupted by user",
                                            "Out of memory error"}
        /\ pc = "propagated" => raised # << >>

\* the run was cancelled: a KeyboardInterrupt was raised in it
Cancelled == \E j \in 1..Len(raised) : raised[j].exception = "KeyboardInterrupt"

\* an entry point has handed a report to its caller
Reported == pc \in {"done", "returned"}

\* C17: the report that results from a cancelled run is internally
\* consistent and its error list processing_info.errors holds an explicit
\* cancellation marker.
C17_CancellationMarker ==
    (Reported /\ Cancelled) =>
        /\ "errors" \in report.processing_info
        /\ \E j \in 1..Len(report.errors) :
             report.errors[j].text = "Processing interrupted by user"
        /\ report.summary.hasEvents <=> report.events # << >>
        /\ report.summary.segmentCount = Len(report.events)

\* C18: every report an entry point returns, on success and on every
\* failure, has the same shape: an events list, a summary, and a
\* processing_info that contains an errors list.
C18_ReportShape ==
    Reported => "errors" \in report.processing_info

\* C19: for every non-empty probability vector the classifier returns,
\* whatever its length, predict_image does not fail and returns one entry per
\* class name, in class-list order: the vector's i-th value for class i when
\* the vector has one, 0.0 when it is shorter, and surplus values are dropped.
C19_PredictionsPerClass ==
    /\ Len(predictions) = Len(vectors)
    /\ \A j \in 1..Len(predictions) :
        vectors[j] # << >> =>
            /\ ~predictions[j].failed
            /\ Len(predictions[j].predictions) = Len(class_names)
            /\ \A c \in 1..Len(class_names) :
                 predictions[j].predictions[c]
                   = IF c <= Len(vectors[j]) THEN vectors[j][c] ELSE 0

\* a window classified from a vector shorter than the class list and a
\* window classified from a longer one
C19_Witness ==
    /\ \E j \in 1..Len(segments) :
         vectors[j] # << >> /\ Len(vectors[j]) < Len(class_names)
    /\ \E j \in 1..Len(segments) : Len(vectors[j]) > Len(class_names)

\* a window of the run failed in export, feature extraction, image save,
\* classification or precise localization
WindowFailed ==
    \/ \E n \in 1..Len(windows) :
         windows[n].outcome \in {"export_failed", "spectrogram_failed", "save_failed",
                                 "export_MemoryError"}
    \/ \E j \in 1..Len(predictions) : predictions[j].failed
    \/ \E j \in 1..Len(raised) : raised[j].stage = "handler"
    \/ \E r \in 1..Len(localized) : localized[r].failed

\* the run was stopped by something other than the failure of a window in one
\* of these stages: a KeyboardInterrupt, or a MemoryError outside them
Stopped ==
    \/ Cancelled
    \/ \E j \in 1..Len(raised) : raised[j].stage \in {"slice", "summary"}

\* the run got as far as aggregation: the predictions of all spectrograms
\* were stored as the results of the run, and the summary was built from
\* them, or building it raised and was recorded
ReachedAggregation ==
    /\ Len(segments) = Len(spectrogram_paths)
    /\ \/ summary # EmptySummary
       \/ \E j \in 1..Len(errors) : errors[j].text = "Summary calculation error"

\* C20: the failure of one window never blocks or cancels another window:
\* after a failure every window is still cut and exported, every window that
\* got a spectrogram is still classified, every classified window is still
\* handed to the localizer, and the run reaches aggregation and goes on
\* until it has returned a report (in precise mode, unless the localizer
\* could not be constructed).
C20_FailureNeverBlocks ==
    (InService /\ WindowFailed /\ ~Stopped) =>
        /\ pc # "segment_loop" => Len(windows) = num_segments
        /\ (model_load = "loaded" /\ pc # "predict_loop")
             => Len(predictions) = Len(spectrogram_paths)
        /\ (pc = "done" /\ entry = "analyze_audio_file_precise")
             => Len(localized) = Len(Successful(segments))
        /\ (Reported /\ model_load = "loaded") => ReachedAggregation
        /\ Reported \/ pc \in {"raised", "exited"} \/ ENABLED Next

\* the call of `function` has returned or raised
Called(function) == pc = "called" /\ call.function = function

\* the four tiers in their order
SeverityRank(severity) ==
    CASE severity = "very_low" -> 0
      [] severity = "low" -> 1
      [] severity = "medium" -> 2
      [] severity = "high" -> 3

\* C21: _calculate_severity returns very_low below 0.4, low from 0.4 and
\* below 0.6, medium from 0.6 and below 0.8, high from 0.8, and no smaller
\* confidence gets a higher tier than the one returned.
C21_SeverityTiers ==
    Called("_calculate_severity") =>
        LET c == call.confidence
            severity == result.value
        IN  /\ result.raised = "none"
            /\ c < 40 => severity = "very_low"
            /\ (40 <= c /\ c < 60) => severity = "low"
            /\ (60 <= c /\ c < 80) => severity = "medium"
            /\ c >= 80 => severity = "high"
            /\ \A lower \in 0..c :
                   SeverityRank(CalculateSeverity(lower)) <= SeverityRank(severity)

\* the call at the boundary 0.8 returned high
C21_Witness ==
    /\ Called("_calculate_severity")
    /\ call.confidence = 80
    /\ result = Returns("high")

\* a two-dimensional array with at least one row and one column
NonDegenerate(shape) == Len(shape) = 2 /\ shape[1] >= 1 /\ shape[2] >= 1

\* C22: for every non-degenerate 2-D array, whatever its height and width,
\* resize_spectrogram returns an array of exactly the target shape (H, W),
\* H and W being positive.
C22_ResizedShapeIsTarget ==
    ( /\ Called("resize_spectrogram")
      /\ NonDegenerate(call.shape)
      /\ call.target_size[1] >= 1
      /\ call.target_size[2] >= 1 )
        => result = Returns(call.target_size)

\* an array was enlarged on one axis and shrunk on the other
C22_Witness ==
    /\ Called("resize_spectrogram")
    /\ call.shape = <<3, 2>>
    /\ call.target_size = <<DefaultTargetDim, 1>>
    /\ result = Returns(<<DefaultTargetDim, 1>>)

\* the invariants of a configuration: 0 <= overlap_ratio < 1,
\* 0 < min_segment_duration <= segment_duration, two positive integers
SatisfiesInvariants(c) ==
    /\ ~c.overlap_ratio.nan
    /\ 0 <= c.overlap_ratio.v /\ c.overlap_ratio.v < OverlapDen
    /\ ~c.min_segment_duration.nan /\ ~c.segment_duration.nan
    /\ 0 < c.min_segment_duration.v
    /\ c.min_segment_duration.v <= c.segment_duration.v
    /\ c.target_size.tuple
    /\ Len(c.target_size.items) = 2
    /\ \A n \in 1..2 : c.target_size.items[n].int /\ c.target_size.items[n].v > 0

\* C23: the constructor raises ValueError for every argument list that
\* violates 0 <= overlap_ratio < 1, 0 < min_segment_duration <=
\* segment_duration or the two positive integers of target_size, so every
\* AudioProcessor that exists satisfies them.
C23_ConstructorValidates ==
    Called("AudioProcessor") =>
        /\ ~SatisfiesInvariants(call) => result = Raises("ValueError")
        /\ result.raised = "none" => SatisfiesInvariants(result.value)

\* the run hit a fatal error: the input could not be segmented, the model
\* could not be loaded, the arguments were rejected or the temporary
\* directory could not be made (nothing was segmented), memory ran out
\* outside the handling of a window, or FlutterCNNService.analyze_audio
\* could not analyse the file
FatalError ==
    \/ seg_error \notin {"none", "KeyboardInterrupt"}
    \/ model_load = "failed"
    \/ InService /\ num_segments = 0 /\ seg_error = "none"
    \/ \E j \in 1..Len(raised) : raised[j].stage = "summary"
    \/ entry \in FlutterServiceEntries /\ report.summary.error # ""

\* C24: a command-line entry point exits with 130 when the run was
\* interrupted by the user, with 1 when it hit a fatal error, and with 0
\* otherwise; an interruption or a fatal error never gives 0.
C24_ExitCodes ==
    pc = "exited" =>
        /\ Cancelled => exit_code = 130
        /\ (FatalError /\ ~Cancelled) => exit_code = 1
        /\ (~FatalError /\ ~Cancelled) => exit_code = 0

\* the (start, end) pairs of the windows of scenario A
ScenarioAWindows == << <<0, 3000>>, <<1500, 4500>>, <<3000, 6000>> >>

\* C25: with S = 3000 ms, r = 0.5, m = 1000 ms and a clip of 7000 ms the step
\* is 1500 ms and exactly 3 windows are attempted, (0, 3000), (1500, 4500)
\* and (3000, 6000).
C25_ScenarioA ==
    ( /\ segment_duration_ms = 3000
      /\ 2 * overlap_k = OverlapDen
      /\ min_segment_duration_ms = 1000
      /\ clip_ms = 7000
      /\ num_segments > 0 )
        => /\ step_size_ms = 1500
           /\ num_segments = 3
           /\ Len(windows) <= 3
           /\ \A n \in 1..Len(windows) :
                  <<windows[n].start_ms, windows[n].end_ms>> = ScenarioAWindows[n]
           /\ (SegmentationOver /\ LoopCompleted) => Len(windows) = 3

\* the loop over the 7000 ms clip has attempted its last window
C25_Witness ==
    /\ clip_ms = 7000
    /\ SegmentationOver
    /\ Len(windows) = 3
    /\ windows[3].end_ms = 6000

\* the natural length of window n: the length of the slice audio[start_ms:end_ms]
NaturalLength(n) == windows[n].end_ms - windows[n].start_ms

\* C26: after the secondary padding a window of natural length L has length
\* m when L < m, S when 0.8 * S <= L < S, and L otherwise; a 500 ms clip
\* with S = 3000 ms and m = 1000 ms yields one window of length 1000 ms.
C26_FinalLength ==
    /\ \A n \in 1..Len(windows) :
           LET L == NaturalLength(n)
               S == segment_duration_ms
               m == min_segment_duration_ms
               padded_to_segment == 5 * L >= 4 * S /\ L < S
           IN  /\ L < m => windows[n].length = m
               /\ padded_to_segment => windows[n].length = S
               /\ (L >= m /\ ~padded_to_segment) => windows[n].length = L
    /\ ( /\ segment_duration_ms = 3000
         /\ min_segment_duration_ms = 1000
         /\ clip_ms = 500
         /\ num_segments > 0 )
           => /\ num_segments = 1
              /\ \A n \in 1..Len(windows) : windows[n].length = 1000

\* a window of 2500 ms was padded to 3000 ms
C26_Witness ==
    /\ clip_ms = 2500
    /\ Len(windows) = 1
    /\ NaturalLength(1) = 2500
    /\ windows[1].length = 3000

\* process_audio_file has returned or raised
ProcessOver == InService /\ pc \in {"results", "propagated", "done", "returned", "exited"}

\* C27: the exported segment and the spectrogram of a window are released
\* before the next window starts, whatever the outcome of the window, and
\* none of them remains once the run has ended, normally or by exception.
C27_ArtefactsScopedToWindow ==
    /\ (pc = "segment_loop" /\ i < num_segments) => temp_files = {}
    /\ ProcessOver => temp_files = {}

\* C28: for every configuration the constructor accepts the step is at least
\* 1 ms, so for a clip longer than the segment duration the window count is
\* computed without a division by zero and each window starts later than the
\* one before it.
C28_StepAtLeastOne ==
    ( /\ ValidConfig(segment_duration_ms, overlap_k, min_segment_duration_ms)
      /\ SegmentationOver
      /\ ClipLoaded
      /\ clip_ms > segment_duration_ms )
        => /\ step_size_ms >= 1
           /\ seg_error # "ZeroDivisionError"
           /\ \A n \in 2..Len(windows) : windows[n - 1].start_ms < windows[n].start_ms

\* C29: for a clip longer than the segment duration and a step of at least
\* 1, every window, the last one included, has natural length exactly S and
\* is left unpadded, and no window ends after D - ((D - S) mod step).
C29_MultiWindowFullLength ==
    (clip_ms > segment_duration_ms /\ step_size_ms >= 1) =>
        \A n \in 1..Len(windows) :
            /\ NaturalLength(n) = segment_duration_ms
            /\ windows[n].length = segment_duration_ms
            /\ windows[n].end_ms
                   <= clip_ms - ((clip_ms - segment_duration_ms) % step_size_ms)

\* the last of several windows was cut, and it ends before the end of the clip
C29_Witness ==
    /\ clip_ms > segment_duration_ms
    /\ num_segments >= 2
    /\ Len(windows) = num_segments
    /\ NaturalLength(num_segments) = segment_duration_ms
    /\ windows[num_segments].end_ms < clip_ms

====
